---- MODULE Spec2Model ----
(***************************************************************************)
(* Model of firebase/firestore/__init__.py: the Firestore root handle, the *)
(* Collection and Document references that share one mutable path list,    *)
(* the terminal operations get / set / delete in admin (vendor SDK) and    *)
(* REST mode, and the path resolution helper _build_db.                    *)
(***************************************************************************)
EXTENDS Integers, Sequences, FiniteSets, TLC

VARIABLES
    root,      \* the Firestore handle: _api_key, _credentials, _project_id
    heap,      \* the list objects: heap[i] is the content of the i-th path list
    refs,      \* the Collection / Document objects obtained so far
    store,     \* the documents held by the Firestore backend, by document name
    callsLeft, \* calls the run may still make (bound)
    lastOp     \* what the most recent call did (its inputs, requests, result)

vars == <<root, heap, refs, store, callsLeft, lastOp>>

\* ------------------------------------------------------------------ bounds
MaxCalls == 6      \* calls (navigation and terminal) made in one run

\* ------------------------------------------------------------------ inputs
None == "None"
Names == {"a", "b"}
Tokens == {None, "tok"}
\* field_paths: absent (None) or a list of field paths
FieldPathLists ==
    {[none |-> TRUE, list |-> <<>>]} \cup
    {[none |-> FALSE, list |-> l] : l \in {<<>>, <<"a">>, <<"x", "y.z">>}}
DataInputs == {"a" :> 1, "b" :> 2, "a" :> 2 @@ "b" :> 1}
InitialStore == "a/b" :> ("a" :> 1)

\* ------------------------------------------------------------- references
\* Collection.__init__ / Document.__init__: the object keeps the list it was
\* given (by reference: `path` is an index into heap) and copies of the
\* connection parameters.  `chain` records which Firestore.collection call the
\* object descends from.
Collection(collection_path, api_key, credentials, project_id, chain) ==
    [cls |-> "Collection", path |-> collection_path, api_key |-> api_key,
     credentials |-> credentials, project_id |-> project_id, chain |-> chain]

\* Variant: the credentials are not handed on to the Document
DocumentWithoutCredentials(document_path, api_key, credentials, project_id, chain) ==
    [cls |-> "Document", path |-> document_path, api_key |-> api_key,
     credentials |-> FALSE, project_id |-> project_id, chain |-> chain]

Document(document_path, api_key, credentials, project_id, chain) ==
    [cls |-> "Document", path |-> document_path, api_key |-> api_key,
     credentials |-> credentials, project_id |-> project_id, chain |-> chain]

\* Variant: one list object kept by the handle and appended to by every call
Firestore_collection_shared(h, collection_id) ==
    IF Len(h) = 0 THEN <<<<collection_id>>>>
    ELSE [h EXCEPT ![1] = Append(@, collection_id)]

\* The `[collection_id]` list literal of Firestore.collection: a new list
\* object on the heap, holding the one segment.
Firestore_collection_path(h, collection_id) == Append(h, <<collection_id>>)

\* Variant: the id is inserted at the front of the list
Collection_document_prepend(p, document_id) == <<document_id>> \o p

\* self._path.append(document_id) in Collection.document
Collection_document_append(p, document_id) == Append(p, document_id)

\* self._path.append(collection_id) in Document.collection
Document_collection_append(p, collection_id) == Append(p, collection_id)

\* ------------------------------------------------------------ path helpers
\* '/'.join(path)
RECURSIVE Join(_)
Join(path) ==
    IF Len(path) = 0 THEN ""
    ELSE IF Len(path) = 1 THEN path[1]
    ELSE path[1] \o "/" \o Join(Tail(path))

\* path = self._path.copy(): the local copy a terminal call works on
CopyPath(p) == p

\* Variant: the shared list is never cleared
KeepPath(p, outcome) == p

\* Variant: the shared list is cleared after the backend call, so only when
\* the call did not raise
ClearPathOnSuccess(p, outcome) == IF outcome = "raise" THEN p ELSE <<>>

\* self._path.clear(), executed before the backend is called: the shared list
\* is empty whatever `outcome` the backend call then has.
ClearPath(p, outcome) == <<>>

\* self._base_path and self._base_url of Document.__init__
BasePath(self) ==
    "projects/" \o self.project_id \o "/databases/(default)/documents"
BaseUrl(self) == "https://firestore.googleapis.com/v1/" \o BasePath(self)

\* headers = {"Authorization": "Firebase " + token}, when a token is given
Headers(token) ==
    IF token # None THEN [Authorization |-> "Firebase " \o token] ELSE None

\* ------------------------------------------------------- vendor SDK handles
\* self.__datastore: the Client built in Document.__init__
Client == [kind |-> "Client", descents |-> <<>>]

\* db.collection(id) / db.document(id) of the vendor SDK: the handle one
\* level down; `descents` lists the descents made to reach it.
SdkCollection(db, id) ==
    [kind |-> "CollectionReference",
     descents |-> Append(db.descents, <<"collection", id>>)]
SdkDocument(db, id) ==
    [kind |-> "DocumentReference",
     descents |-> Append(db.descents, <<"document", id>>)]

\* Variant: n = floor(len(path) / 2)
FloorCount(path) == Len(path) \div 2

\* n = ceil(len(path) / 2)
LoopCount(path) == (Len(path) + 1) \div 2

\* The loop of _build_db, n iterations left: pop the first segment and descend
\* with collection(); if segments remain pop the next and descend with
\* document().
RECURSIVE BuildLoop(_, _, _)
BuildLoop(n, db, path) ==
    IF n = 0 THEN [db |-> db, path |-> path]
    ELSE LET db1 == SdkCollection(db, Head(path))
             p1  == Tail(path)
         IN  IF Len(p1) > 0
             THEN BuildLoop(n - 1, SdkDocument(db1, Head(p1)), Tail(p1))
             ELSE BuildLoop(n - 1, db1, p1)

_build_db(db, path) == BuildLoop(LoopCount(path), db, path)

\* The document name a vendor handle addresses
SdkName(db) == Join([i \in 1..Len(db.descents) |-> db.descents[i][2]])

\* ------------------------------------------------------------ the backend
\* Firestore's typed wire form of a mapping (integer values travel as
\* strings), as pbs_for_set_no_merge encodes it, and the mapping it stands for
ToDatastore(data) ==
    [fields |-> [f \in DOMAIN data |-> [integerValue |-> ToString(data[f])]]]
DecodeFields(fields) ==
    [f \in DOMAIN fields |->
        CHOOSE v \in 0..9 : ToString(v) = fields[f].integerValue]

\* _from_datastore of firebase/firestore/_utils.py: the plain field-to-value
\* mapping of a REST document
_from_datastore(json) == DecodeFields(json.fields)

\* The projection a read makes when field paths are requested
Project(data, field_paths) ==
    IF field_paths.none THEN data
    ELSE LET keep == {field_paths.list[i] : i \in 1..Len(field_paths.list)}
                        \cap DOMAIN data
         IN  [f \in keep |-> data[f]]

\* A name addresses a document when it has an even, positive number of segments
IsDocumentPath(path) == Len(path) > 0 /\ Len(path) % 2 = 0

\* What a write does to the stored document: a write without an update mask
\* replaces it, a write with one merges its fields into it.
ApplyWrite(st, name, data, merge) ==
    LET old == IF name \in DOMAIN st THEN st[name] ELSE <<>>
        new == IF ~merge THEN data
               ELSE [f \in (DOMAIN old \cup DOMAIN data) |->
                        IF f \in DOMAIN data THEN data[f] ELSE old[f]]
    IN  [n \in DOMAIN st \cup {name} |-> IF n = name THEN new ELSE st[n]]

ApplyDelete(st, name) == [n \in DOMAIN st \ {name} |-> st[n]]

ErrorBody(message) == [error |-> [message |-> message]]

\* firebase._exception.raise_detailed_error(response): a non-2xx response is
\* raised as an error carrying its status and message.
raise_detailed_error(response) ==
    IF response.status >= 200 /\ response.status < 300
    THEN [raised |-> FALSE]
    ELSE [raised |-> TRUE, status |-> response.status,
          message |-> response.json.error.message]

\* `if field_paths:` is false for None and for the empty list
Truthy(field_paths) == ~field_paths.none /\ Len(field_paths.list) > 0

\* The vendor SDK's db_ref.get(field_paths=...) followed by to_dict(): only a
\* document handle has the operation; the vendor's own exceptions propagate.
SdkGet(call, st) ==
    IF call.on.kind # "DocumentReference"
    THEN {[outcome |-> "raise", value |-> [error |-> "AttributeError"], store |-> st]}
    ELSE LET name == SdkName(call.on)
         IN  {[outcome |-> "return",
               value |-> IF name \in DOMAIN st
                         THEN [dict |-> Project(st[name], call.field_paths)]
                         ELSE [dict |-> None],
               store |-> st],
              [outcome |-> "raise", value |-> [error |-> "GoogleAPICallError"],
               store |-> st]}

\* db_ref.set(data): the SDK's write with its default merge=False
SdkSet(call, st) ==
    IF call.on.kind # "DocumentReference"
    THEN {[outcome |-> "raise", value |-> [error |-> "AttributeError"], store |-> st]}
    ELSE {[outcome |-> "return", value |-> None,
           store |-> ApplyWrite(st, SdkName(call.on), call.data, call.merge)],
          [outcome |-> "raise", value |-> [error |-> "GoogleAPICallError"],
           store |-> st]}

\* db_ref.delete()
SdkDelete(call, st) ==
    IF call.on.kind # "DocumentReference"
    THEN {[outcome |-> "raise", value |-> [error |-> "AttributeError"], store |-> st]}
    ELSE {[outcome |-> "return", value |-> None,
           store |-> ApplyDelete(st, SdkName(call.on))],
          [outcome |-> "raise", value |-> [error |-> "GoogleAPICallError"],
           store |-> st]}

Denied(st) ==
    [status |-> 403, json |-> ErrorBody("permission denied"), store |-> st]
Invalid(st) ==
    [status |-> 400, json |-> ErrorBody("invalid name"), store |-> st]

\* self._requests.get(req_ref, ...): the responses the REST endpoint can give
HttpGet(path, field_paths, st) ==
    IF ~IsDocumentPath(path) THEN {Invalid(st)}
    ELSE IF Join(path) \notin DOMAIN st
    THEN {[status |-> 404, json |-> ErrorBody("not found"), store |-> st]}
    ELSE {[status |-> 200,
           json |-> ToDatastore(
                      IF Truthy(field_paths)
                      THEN Project(st[Join(path)], field_paths)
                      ELSE st[Join(path)]),
           store |-> st],
          Denied(st)}

\* self._requests.post(req_ref, json=body): the commit of the one write
HttpCommit(path, write, st) ==
    IF ~IsDocumentPath(path) THEN {Invalid(st)}
    ELSE {[status |-> 200, json |-> [writeResults |-> <<>>],
           store |-> ApplyWrite(st, Join(path), DecodeFields(write.update.fields),
                                write.has_update_mask)],
          Denied(st)}

\* self._requests.delete(req_ref, ...)
HttpDelete(path, st) ==
    IF ~IsDocumentPath(path) THEN {Invalid(st)}
    ELSE {[status |-> 200, json |-> <<>>, store |-> ApplyDelete(st, Join(path))],
          Denied(st)}

\* ----------------------------------------------------- REST request pieces
\* Variant: each parameter is put in front of the ones built so far
RECURSIVE MaskLoopReversed(_, _)
MaskLoopReversed(mask, list) ==
    IF Len(list) = 0 THEN mask
    ELSE MaskLoopReversed("mask.fieldPaths=" \o Head(list) \o "&" \o mask,
                          Tail(list))

\* The loop building `mask`: one "mask.fieldPaths=<field_path>&" per entry
RECURSIVE MaskLoop(_, _)
MaskLoop(mask, list) ==
    IF Len(list) = 0 THEN mask
    ELSE MaskLoop(mask \o "mask.fieldPaths=" \o Head(list) \o "&", Tail(list))

Mask(field_paths) ==
    IF Truthy(field_paths) THEN MaskLoop("", field_paths.list) ELSE ""

\* req_ref of Document.get
GetUrl(self, path, field_paths) ==
    BaseUrl(self) \o "/" \o Join(path) \o "?" \o Mask(field_paths)
        \o "key=" \o self.api_key

\* req_ref of Document.delete
DeleteUrl(self, path) ==
    BaseUrl(self) \o "/" \o Join(path) \o "?key=" \o self.api_key

\* req_ref of Document.set
CommitUrl(self) == BaseUrl(self) \o ":commit?key=" \o self.api_key

\* Variant: the write of pbs_for_set_with_merge, carrying an update mask
SetWriteMerge(name, data) ==
    [update |-> [name |-> name, fields |-> ToDatastore(data).fields],
     has_update_mask |-> TRUE]

\* Message.to_dict(pbs_for_set_no_merge(name, data)[0]): one update write of
\* the whole document, carrying no update mask.
SetWrite(name, data) ==
    [update |-> [name |-> name, fields |-> ToDatastore(data).fields],
     has_update_mask |-> FALSE]

\* db_ref.set(data): merge is left at the SDK's default
SetCall(db_ref, data) ==
    [method |-> "set", on |-> db_ref, data |-> data, merge |-> FALSE]

\* Variant: the response is not checked, an error response returns nothing
GetResultUnchecked(response) ==
    LET err == raise_detailed_error(response)
    IN  IF err.raised THEN [outcome |-> "return", value |-> None]
        ELSE [outcome |-> "return", value |-> _from_datastore(response.json)]

\* raise_detailed_error(response); return _from_datastore(response.json())
GetResult(response) ==
    LET err == raise_detailed_error(response)
    IN  IF err.raised THEN [outcome |-> "raise", value |-> err]
        ELSE [outcome |-> "return", value |-> _from_datastore(response.json)]

\* raise_detailed_error(response), the last statement of set and delete
VoidResult(response) ==
    LET err == raise_detailed_error(response)
    IN  IF err.raised THEN [outcome |-> "raise", value |-> err]
        ELSE [outcome |-> "return", value |-> None]

\* ---------------------------------------------------------------- history
\* lastOp before any call; each call overwrites the fields it concerns
NoOp ==
    [op |-> "init", self |-> None, arg |-> None, ret |-> None,
     prePath |-> <<>>, retPath |-> <<>>, path |-> <<>>,
     built |-> None, sdk |-> <<>>, http |-> <<>>, response |-> None,
     outcome |-> None, value |-> None,
     fluent |-> FALSE, chainArgs |-> <<>>, preDoc |-> None]

Init ==
    /\ root \in {[api_key |-> "K", credentials |-> c, project_id |-> "p"] :
                    c \in BOOLEAN}
    /\ heap = <<>>
    /\ refs = {}
    /\ store = InitialStore
    /\ callsLeft = MaxCalls
    /\ lastOp = NoOp

NavOps == {"Firestore.collection", "Collection.document", "Document.collection"}
TerminalOps == {"get", "set", "delete"}

\* A navigation call on `self` continues a single chain when `self` is what the
\* preceding call returned and every call since Firestore.collection did so.
Chained(self) ==
    /\ lastOp.op \in NavOps
    /\ lastOp.fluent
    /\ lastOp.ret = self

\* --------------------------------------------------------------- operations
\* Firestore.collection(collection_id)
Firestore_collection ==
    /\ callsLeft > 0
    /\ \E collection_id \in Names :
         LET h1 == Firestore_collection_path(heap, collection_id)
             r  == Collection(Len(h1), root.api_key, root.credentials,
                              root.project_id, Len(heap) + 1)
         IN  /\ heap' = h1
             /\ refs' = refs \cup {r}
             /\ lastOp' = [NoOp EXCEPT !.op = "Firestore.collection",
                                       !.arg = collection_id, !.ret = r,
                                       !.retPath = h1[r.path],
                                       !.fluent = TRUE,
                                       !.chainArgs = <<collection_id>>]
    /\ callsLeft' = callsLeft - 1
    /\ UNCHANGED <<root, store>>

\* Collection.document(document_id)
Collection_document ==
    /\ callsLeft > 0
    /\ \E self \in refs, document_id \in Names :
         /\ self.cls = "Collection"
         /\ LET h1 == [heap EXCEPT ![self.path] =
                           Collection_document_append(@, document_id)]
                r  == Document(self.path, self.api_key, self.credentials,
                               self.project_id, self.chain)
            IN  /\ heap' = h1
                /\ refs' = refs \cup {r}
                /\ lastOp' = [NoOp EXCEPT !.op = "Collection.document",
                                          !.self = self, !.arg = document_id,
                                          !.ret = r,
                                          !.prePath = heap[self.path],
                                          !.retPath = h1[r.path],
                                          !.fluent = Chained(self),
                                          !.chainArgs =
                                              IF Chained(self)
                                              THEN Append(lastOp.chainArgs, document_id)
                                              ELSE <<>>]
    /\ callsLeft' = callsLeft - 1
    /\ UNCHANGED <<root, store>>

\* Document.collection(collection_id)
Document_collection ==
    /\ callsLeft > 0
    /\ \E self \in refs, collection_id \in Names :
         /\ self.cls = "Document"
         /\ LET h1 == [heap EXCEPT ![self.path] =
                           Document_collection_append(@, collection_id)]
                r  == Collection(self.path, self.api_key, self.credentials,
                                 self.project_id, self.chain)
            IN  /\ heap' = h1
                /\ refs' = refs \cup {r}
                /\ lastOp' = [NoOp EXCEPT !.op = "Document.collection",
                                          !.self = self, !.arg = collection_id,
                                          !.ret = r,
                                          !.prePath = heap[self.path],
                                          !.retPath = h1[r.path],
                                          !.fluent = Chained(self),
                                          !.chainArgs =
                                              IF Chained(self)
                                              THEN Append(lastOp.chainArgs, collection_id)
                                              ELSE <<>>]
    /\ callsLeft' = callsLeft - 1
    /\ UNCHANGED <<root, store>>

\* The document the backend holds under a name, if any
StoredAt(st, name) ==
    IF name \in DOMAIN st THEN [exists |-> TRUE, dict |-> st[name]]
    ELSE [exists |-> FALSE]

\* The state a terminal call of `self` leaves: the shared list cleared, the
\* backend's documents as the call left them.
Finish(self, op, input, path, built, sdk, http, response, res) ==
    /\ heap' = [heap EXCEPT ![self.path] = ClearPath(@, res.outcome)]
    /\ store' = res.store
    /\ lastOp' = [NoOp EXCEPT !.op = op, !.self = self, !.arg = input,
                              !.preDoc = StoredAt(store, Join(path)),
                              !.prePath = heap[self.path], !.path = path,
                              !.built = built, !.sdk = sdk, !.http = http,
                              !.response = response,
                              !.outcome = res.outcome, !.value = res.value]
    /\ callsLeft' = callsLeft - 1
    /\ UNCHANGED <<root, refs>>

\* Document.get(field_paths, token)
Document_get ==
    /\ callsLeft > 0
    /\ \E self \in refs, field_paths \in FieldPathLists :
         /\ self.cls = "Document"
         /\ LET path == CopyPath(heap[self.path])
            IN  IF self.credentials
                THEN LET built == _build_db(Client, path)
                         call  == [method |-> "get", on |-> built.db,
                                   field_paths |-> field_paths]
                     IN  \E res \in SdkGet(call, store) :
                            Finish(self, "get", field_paths, path, built,
                                   <<call>>, <<>>, None, res)
                ELSE LET req(token) == [method |-> "GET",
                                 url |-> GetUrl(self, path, field_paths),
                                 headers |-> Headers(token)]
                     IN  \E token \in Tokens,
                            response \in HttpGet(path, field_paths, store) :
                            Finish(self, "get", field_paths, path, None,
                                   <<>>, <<req(token)>>, response,
                                   GetResult(response) @@
                                       [store |-> response.store])

\* Document.set(data, token)
Document_set ==
    /\ callsLeft > 0
    /\ \E self \in refs, data \in DataInputs :
         /\ self.cls = "Document"
         /\ LET path == CopyPath(heap[self.path])
            IN  IF self.credentials
                THEN LET built == _build_db(Client, path)
                         call  == SetCall(built.db, data)
                     IN  \E res \in SdkSet(call, store) :
                            Finish(self, "set", data, path, built, <<call>>, <<>>,
                                   None, res)
                ELSE LET write == SetWrite(BasePath(self) \o "/" \o Join(path),
                                           data)
                         req(token) ==
                                [method |-> "POST", url |-> CommitUrl(self),
                                 headers |-> Headers(token),
                                 json |-> [writes |-> <<write>>]]
                     IN  \E token \in Tokens,
                            response \in HttpCommit(path, write, store) :
                            Finish(self, "set", data, path, None,
                                   <<>>, <<req(token)>>, response,
                                   VoidResult(response) @@
                                       [store |-> response.store])

\* Document.delete(token)
Document_delete ==
    /\ callsLeft > 0
    /\ \E self \in refs :
         /\ self.cls = "Document"
         /\ LET path == CopyPath(heap[self.path])
            IN  IF self.credentials
                THEN LET built == _build_db(Client, path)
                         call  == [method |-> "delete", on |-> built.db]
                     IN  \E res \in SdkDelete(call, store) :
                            Finish(self, "delete", None, path, built,
                                   <<call>>, <<>>, None, res)
                ELSE LET req(token) == [method |-> "DELETE",
                                 url |-> DeleteUrl(self, path),
                                 headers |-> Headers(token)]
                     IN  \E token \in Tokens,
                            response \in HttpDelete(path, store) :
                            Finish(self, "delete", None, path, None,
                                   <<>>, <<req(token)>>, response,
                                   VoidResult(response) @@
                                       [store |-> response.store])

Next ==
    \/ Firestore_collection
    \/ Collection_document
    \/ Document_collection
    \/ Document_get
    \/ Document_set
    \/ Document_delete

Spec == Init /\ [][Next]_vars
\* ------------------------------------------------------------------ claims
IsTerminal(o) == o.op \in TerminalOps
IsNav(o) == o.op \in NavOps

\* The backend is addressed with no path segment at all
AddressesNothing(o) ==
    /\ o.path = <<>>
    /\ IF o.self.credentials
       THEN /\ o.built.db = Client
            /\ o.sdk[1].on.descents = <<>>
       ELSE CASE o.op = "delete" ->
                   o.http[1].url = BaseUrl(o.self) \o "/?key=" \o o.self.api_key
              [] o.op = "get" ->
                   o.http[1].url = BaseUrl(o.self) \o "/?" \o Mask(o.arg)
                                       \o "key=" \o o.self.api_key
              [] o.op = "set" ->
                   o.http[1].json.writes[1].update.name = BasePath(o.self) \o "/"

\* C1: right after any terminal call (get, set, delete), in either credential
\* mode, the shared path list is empty, and a terminal call that directly
\* follows a terminal call on the same Document reference sends the backend
\* the empty path, with none of the segments the first call consumed.
C1_ClearedAfterTerminal ==
    [][IsTerminal(lastOp') =>
          /\ heap'[lastOp'.self.path] = <<>>
          /\ (IsTerminal(lastOp) /\ lastOp.self = lastOp'.self) =>
                AddressesNothing(lastOp')]_vars

C1_Witness ==
    /\ IsTerminal(lastOp)
    /\ callsLeft = MaxCalls - 4
    /\ Len(heap) = 1
    /\ lastOp.prePath = <<>>
    /\ AddressesNothing(lastOp)
    /\ heap[lastOp.self.path] = <<>>

\* C2: whenever a navigation call returns a Document reference its path has
\* an even number of segments, and whenever it returns a Collection reference
\* its path has an odd number of segments, also when a reference is navigated
\* from more than once or after a terminal call cleared the shared path.
C2_ParityOfReturnedReference ==
    IsNav(lastOp) =>
        /\ lastOp.ret.cls = "Document" => Len(lastOp.retPath) % 2 = 0
        /\ lastOp.ret.cls = "Collection" => Len(lastOp.retPath) % 2 = 1

\* The descent root.collection(s1).document(s2).collection(s3)... over path[i..]
RECURSIVE Descend(_, _, _)
Descend(db, path, i) ==
    IF i > Len(path) THEN db
    ELSE Descend(IF i % 2 = 1 THEN SdkCollection(db, path[i])
                              ELSE SdkDocument(db, path[i]),
                 path, i + 1)

\* C3: for every segment sequence of length L >= 1, _build_db makes
\* ceil(L/2) collection descents and floor(L/2) document descents, strictly
\* alternating from a collection descent, using each segment once and in
\* order; it leaves its input empty and returns a collection reference when L
\* is odd, a document reference when L is even: the reference
\* root.collection(s1).document(s2).collection(s3)... names.
C3_BuildDb ==
    (IsTerminal(lastOp) /\ lastOp.self.credentials /\ Len(lastOp.path) >= 1) =>
        LET L  == Len(lastOp.path)
            d  == lastOp.built.db.descents
            nc == Cardinality({i \in 1..Len(d) : d[i][1] = "collection"})
            nd == Cardinality({i \in 1..Len(d) : d[i][1] = "document"})
        IN  /\ 2 * nc >= L /\ 2 * nc <= L + 1
            /\ 2 * nd <= L /\ 2 * nd >= L - 1
            /\ Len(d) = L
            /\ \A i \in 1..Len(d) :
                  /\ d[i][2] = lastOp.path[i]
                  /\ d[i][1] = IF i % 2 = 1 THEN "collection" ELSE "document"
            /\ lastOp.built.path = <<>>
            /\ lastOp.built.db.kind =
                  IF L % 2 = 1 THEN "CollectionReference" ELSE "DocumentReference"
            /\ lastOp.built.db = Descend(Client, lastOp.path, 1)

C3_Witness ==
    /\ IsTerminal(lastOp)
    /\ lastOp.self.credentials
    /\ lastOp.path = <<"a", "b", "b">>
    /\ lastOp.built.db.kind = "CollectionReference"
    /\ lastOp.built.path = <<>>

\* C4: in a single chain started by Firestore.collection, each navigation
\* call appends exactly its argument at the end of the path and leaves the
\* earlier segments as they were, so a chain of k navigation calls with
\* arguments a1..ak returns a reference whose path is [a1..ak]; navigation
\* makes no backend call.
C4_ChainBuildsPath ==
    IsNav(lastOp) =>
        /\ lastOp.sdk = <<>> /\ lastOp.http = <<>>
        /\ lastOp.fluent =>
              /\ lastOp.retPath = lastOp.chainArgs
              /\ heap[lastOp.ret.path] = lastOp.chainArgs
              /\ lastOp.op # "Firestore.collection" =>
                    /\ lastOp.retPath = Append(lastOp.prePath, lastOp.arg)
                    /\ lastOp.prePath =
                          SubSeq(lastOp.chainArgs, 1, Len(lastOp.chainArgs) - 1)
              /\ lastOp.ret.cls =
                    IF Len(lastOp.chainArgs) % 2 = 1 THEN "Collection"
                    ELSE "Document"

C4_Witness ==
    /\ lastOp.op = "Document.collection"
    /\ lastOp.fluent
    /\ lastOp.chainArgs = <<"a", "b", "a">>
    /\ lastOp.ret.cls = "Collection"
    /\ heap[lastOp.ret.path] = <<"a", "b", "a">>
    /\ store = InitialStore
Is2xx(status) == status \in 200..299

\* C5: in REST mode, a terminal call whose HTTP response is not 2xx ends by
\* raising an error that carries the response's status and message and never
\* returns; one whose response is 2xx raises nothing, and get then returns
\* the field-to-value mapping that the response's typed document encodes.
C5_RestErrorContract ==
    (IsTerminal(lastOp) /\ ~lastOp.self.credentials) =>
        LET r == lastOp.response
        IN  /\ ~Is2xx(r.status) =>
                  /\ lastOp.outcome = "raise"
                  /\ lastOp.value.status = r.status
                  /\ lastOp.value.message = r.json.error.message
            /\ Is2xx(r.status) =>
                  /\ lastOp.outcome = "return"
                  /\ lastOp.op = "get" =>
                        /\ DOMAIN lastOp.value = DOMAIN r.json.fields
                        /\ \A f \in DOMAIN lastOp.value :
                              ToString(lastOp.value[f]) =
                                  r.json.fields[f].integerValue

C5_Witness ==
    /\ lastOp.op = "get"
    /\ ~lastOp.self.credentials
    /\ lastOp.response.status = 404
    /\ lastOp.outcome = "raise"
    /\ lastOp.value.status = 404
    /\ lastOp.value.message = "not found"

\* C6: set overwrites and never merges: after a successful set(d2) the
\* document stored under the addressed name is exactly d2, with no field of
\* the content an earlier set(d1) left there, in admin and in REST mode.
C6_SetOverwrites ==
    (lastOp.op = "set" /\ lastOp.outcome = "return") =>
        /\ Join(lastOp.path) \in DOMAIN store
        /\ store[Join(lastOp.path)] = lastOp.arg
        /\ ~lastOp.self.credentials =>
              /\ Len(lastOp.http[1].json.writes) = 1
              /\ ~lastOp.http[1].json.writes[1].has_update_mask

C6_Witness ==
    /\ lastOp.op = "set"
    /\ lastOp.outcome = "return"
    /\ lastOp.path = <<"b", "a">>
    /\ lastOp.preDoc.exists
    /\ lastOp.preDoc.dict = ("a" :> 1)
    /\ lastOp.arg = ("b" :> 2)
    /\ store["b/a"] = ("b" :> 2)

RECURSIVE MaskParams(_, _)
MaskParams(list, i) ==
    IF i > Len(list) THEN ""
    ELSE "mask.fieldPaths=" \o list[i] \o "&" \o MaskParams(list, i + 1)

\* C8: the URL of a REST-mode get has as query string one
\* 'mask.fieldPaths=<fi>&' per requested field path, in list order, then
\* 'key=<api_key>'; with field_paths absent or empty it is 'key=<api_key>'
\* alone; ["x","y.z"] gives 'mask.fieldPaths=x&mask.fieldPaths=y.z&key=...'.
C8_GetQueryString ==
    (lastOp.op = "get" /\ ~lastOp.self.credentials) =>
        LET fp   == lastOp.arg
            head == "https://firestore.googleapis.com/v1/projects/"
                        \o lastOp.self.project_id
                        \o "/databases/(default)/documents/"
                        \o Join(lastOp.path) \o "?"
            url  == lastOp.http[1].url
        IN  /\ url = head \o MaskParams(fp.list, 1) \o "key=" \o lastOp.self.api_key
            /\ (fp.none \/ fp.list = <<>>) =>
                  url = head \o "key=" \o lastOp.self.api_key
            /\ (~fp.none /\ fp.list = <<"x", "y.z">>) =>
                  url = head \o "mask.fieldPaths=x&mask.fieldPaths=y.z&key="
                             \o lastOp.self.api_key

C8_Witness ==
    /\ lastOp.op = "get"
    /\ ~lastOp.self.credentials
    /\ ~lastOp.arg.none
    /\ lastOp.arg.list = <<"x", "y.z">>
    /\ lastOp.http[1].url =
          "https://firestore.googleapis.com/v1/projects/p/databases/(default)"
              \o "/documents/a/b?mask.fieldPaths=x&mask.fieldPaths=y.z&key=K"

\* C9: a terminal call that ends by raising (a non-2xx REST response or a
\* vendor SDK exception) still leaves the shared path empty, so the state is
\* not the one before the call, and the same call repeated on the same
\* reference after the failure addresses the empty path, not the document.
C9_ClearedOnError ==
    [][(IsTerminal(lastOp') /\ lastOp'.outcome = "raise") =>
          /\ heap'[lastOp'.self.path] = <<>>
          /\ lastOp'.prePath # <<>> => heap' # heap
          /\ (IsTerminal(lastOp) /\ lastOp.outcome = "raise"
                /\ lastOp.op = lastOp'.op /\ lastOp.self = lastOp'.self) =>
                /\ lastOp'.prePath = <<>>
                /\ lastOp'.path = <<>>]_vars

C9_Witness ==
    /\ IsTerminal(lastOp)
    /\ lastOp.outcome = "raise"
    /\ lastOp.prePath = <<"a", "b">>
    /\ lastOp.path = <<"a", "b">>
    /\ heap[lastOp.self.path] = <<>>

\* C10: every Firestore.collection(name) call seeds a new path [name] that no
\* earlier reference holds; no navigation or terminal call on a reference of
\* one chain changes the path held by a reference of another chain; and all
\* references derived from one Firestore.collection call hold the same list.
C10_ChainsIsolated ==
    [][/\ lastOp'.op = "Firestore.collection" =>
             /\ heap'[lastOp'.ret.path] = <<lastOp'.arg>>
             /\ \A r \in refs :
                   /\ r.path # lastOp'.ret.path
                   /\ heap'[r.path] = heap[r.path]
       /\ lastOp'.op # "Firestore.collection" =>
             \A r \in refs : r.chain # lastOp'.self.chain =>
                   heap'[r.path] = heap[r.path]
       /\ \A r1, r2 \in refs' : (r1.chain = r2.chain) <=> (r1.path = r2.path)
      ]_vars

C10_Witness ==
    /\ Len(heap) = 2
    /\ IsTerminal(lastOp)
    /\ lastOp.self.chain = 2
    /\ heap[2] = <<>>
    /\ heap[1] = <<"a", "b">>
    /\ \E r \in refs : r.chain = 1 /\ r.cls = "Document"
====
